---- MODULE Spec2Model ----
(***************************************************************************)
(* State-machine model of the hotlabel-server task distribution engine:    *)
(* the task records and the priority queue kept in Redis, the lease        *)
(* (assign_task), the response path (submit_response), and the periodic    *)
(* Celery jobs (process_expired_tasks, analyze_task_distribution).         *)
(*                                                                         *)
(* Serialisation.  RedisService.store_json calls json.dumps(data) with no   *)
(* encoder for datetime and swallows every exception.  A dict made by       *)
(* BaseModel.dict() (TaskInDB, ResponseInDB, UserProfile) holds datetime    *)
(* objects, so json.dumps raises TypeError and nothing is written; a dict   *)
(* read back from Redis holds ISO strings and is written.  create_task,     *)
(* queue_task and store_response therefore write no record.  The records    *)
(* that assign_task, update_task_status and the Celery jobs work on are     *)
(* the ones the Redis database already holds when the server connects:      *)
(* Init draws them.                                                         *)
(*                                                                         *)
(* Time is counted in minutes.  Queue scores are stored multiplied by      *)
(* ScoreScale, so that the rebalancer's age boost (age_hours / 24) is an   *)
(* integer.  Match scores are stored multiplied by 2, so that              *)
(* technical_level * 5 (technical_level in tenths) is an integer.          *)
(*                                                                         *)
(* Spec           every handler is one atomic action.                      *)
(* SpecInterleaved  assign_task, submit_response and process_expired_tasks *)
(*                are split at their Redis commands (GET, SET, ZADD) and   *)
(*                interleave freely, as they do across server workers and  *)
(*                the Celery worker.                                       *)
(***************************************************************************)
EXTENDS Integers, Sequences, FiniteSets, TLC

VARIABLES
    tasks,          \* Redis keys task:<id>  : task_id -> task record
    queue,          \* Redis sorted set queue:tasks : task_id -> score * ScoreScale
    responses,      \* Redis keys response:<id> : sequence of stored responses
    users,          \* Redis keys user:<session_id> : session_id -> profile record
    tasks_assigned, \* Redis counter stats:tasks:assigned
    now,            \* datetime.utcnow(), in minutes
    last,           \* the last finished call: its name, arguments and return value
    assign_calls,   \* SpecInterleaved: assign_task calls between GET and SET, per session
    submit_calls,   \* SpecInterleaved: submit_response calls in progress, per session
    sweep           \* SpecInterleaved: the process_expired_tasks run in progress

vars == <<tasks, queue, responses, users, tasks_assigned, now, last,
          assign_calls, submit_calls, sweep>>

inflight == <<assign_calls, submit_calls, sweep>>

-----------------------------------------------------------------------------
(* Bounds of the model *)

MaxTicks == 3
MaxAssigned == 2
MaxResponses == 1
MaxPriority == 9
MaxInflight == 2
MaxDays == 92
MaxFiller == 20
MaxLimit == 2
MaxStored == 2

\* Items in one batch request.
MaxBatch == 3

\* The largest count get_next_tasks is called with, and the ids of its queue.
MaxCount == 3
MaxPeekId == 3

(* Program constants *)

LeaseMinutes == 10
TickMinutes == 5
ScoreScale == 1440
WindowSize == 20
ListLimit == 10
TopDomainCount == 5
DayMinutes == 1440
TaskMaxAgeDays == 90
ResponseMaxAgeDays == 90
UserMaxAgeDays == 60
RequeuePriority == 5
MaxAgeBoost == 5
MaxResponseBoost == 5
MinExpectedTime == 1000
DefaultScore == 5
FastPenalty == 2
WrongPenalty == 3
ScoreOne == 10
HighThreshold == 8
MediumThreshold == 5
LowThreshold == 2

-----------------------------------------------------------------------------
(* Values *)

\* Task ids (caller-assigned or generated); Redis orders equal scores by id.
TaskIds == {1, 2}

\* Session ids are strings chosen by the client (Query(...) accepts the empty
\* string too).
Sessions == {"w1", "w2", ""}

None == "None"
NoTime == -1

PENDING == "pending"
ASSIGNED == "assigned"
COMPLETED == "completed"
REJECTED == "rejected"
EXPIRED == "expired"

\* Python truthiness of an Optional[str] read back from JSON.
Truthy(v) == v # None /\ v # ""

\* Python truthiness of an Optional ISO timestamp.
TruthyTime(v) == v # NoTime

\* The task submissions the model draws from (TaskCreate bodies): one body per
\* task id, so that re-submitting an id re-submits the same task.
TaskInput(t) ==
    IF t = 1
    THEN [language |-> "en", category |-> "text",  type |-> "rating",     topic |-> "news",   complexity |-> 1]
    ELSE [language |-> "fr", category |-> "image", type |-> "true-false", topic |-> "sports", complexity |-> 3]

Languages == {"en", "fr"}

Put(f, k, v) == [x \in (DOMAIN f) \cup {k} |-> IF x = k THEN v ELSE f[x]]


EmptyMap == [x \in {} |-> 0]

\* BaseModel.dict(): the fields as Python objects.  `datetimes` names the
\* fields whose value is a datetime object (not an ISO string).
model_dict(fields, datetimes) == [fields |-> fields, datetimes |-> datetimes]

\* json.dumps(data) raises TypeError: "Object of type datetime is not JSON
\* serializable" (no default= encoder is passed).
json_dumps_raises(data) == data.datetimes # {}

\* A store_json whose encoder writes datetime objects too.
store_json_encoding(store, key, data) == Put(store, key, data.fields)

\* RedisService.store_json: SET key json.dumps(data); any exception is logged
\* and False returned, which no caller looks at.
store_json(store, key, data) ==
    IF json_dumps_raises(data) THEN store ELSE Put(store, key, data.fields)

Abs(x) == IF x < 0 THEN 0 - x ELSE x

Min(a, b) == IF a < b THEN a ELSE b

Max(a, b) == IF a > b THEN a ELSE b

\* What a call found in the store for task t: its status and holder.
Found(store, t) ==
    IF t \in DOMAIN store THEN <<store[t].status, store[t].assigned_to>> ELSE <<>>

\* What a finished call leaves behind: the call, its arguments, what it found
\* in the store for its task, whether it returned a value (a task, a
\* response) and the count a job reports.
Ret(op, t, w, found, ok, n) ==
    [op |-> op, task_id |-> t, session_id |-> w, found |-> found, ok |-> ok, count |-> n]

-----------------------------------------------------------------------------
(* Priority queue: the sorted set queue:tasks *)

\* Redis orders a sorted set by score, then by member.
Before(q, a, b) == q[a] < q[b] \/ (q[a] = q[b] /\ a < b)

RECURSIVE SortedIds(_, _)
SortedIds(q, S) ==
    IF S = {} THEN <<>>
    ELSE LET m == CHOOSE a \in S : \A b \in S \ {a} : Before(q, a, b)
         IN  <<m>> \o SortedIds(q, S \ {m})

\* ZRANGE queue:tasks 0 count-1 with the ranks reversed: highest score first.
zrevrange(q, count) ==
    LET all == SortedIds(q, DOMAIN q)
        n == Min(count, Len(all))
    IN  [i \in 1..n |-> all[Len(all) + 1 - i]]

\* ZRANGE queue:tasks 0 count-1.  A negative stop index counts from the end
\* of the set: with count = 0 the stop is -1, the last element.
zrange(q, count) ==
    LET all == SortedIds(q, DOMAIN q)
        stop == IF count - 1 < 0 THEN Len(all) + (count - 1) ELSE Min(count - 1, Len(all) - 1)
    IN  SubSeq(all, 1, stop + 1)

\* ZADD queue:tasks {value: score}
add_to_sorted_set(q, value, score) == Put(q, value, score)

RECURSIVE SelectSeqIn(_, _)
SelectSeqIn(s, S) ==
    IF s = <<>> THEN <<>>
    ELSE IF Head(s) \in S THEN <<Head(s)>> \o SelectSeqIn(Tail(s), S)
         ELSE SelectSeqIn(Tail(s), S)

\* get_next_tasks reading the whole queue, whatever `count` is.
get_next_tasks_all(q, store, count) == SelectSeqIn(SortedIds(q, DOMAIN q), DOMAIN store)

\* The ids of the first `count` queue entries that still have a task record.
get_next_tasks(q, store, count) == SelectSeqIn(zrange(q, count), DOMAIN store)

\* base_priority = 10 - task.complexity * 2
base_priority(task) == (10 - task.complexity * 2) * ScoreScale

-----------------------------------------------------------------------------
(* Task records *)

\* TaskInDB(**task.dict(), status=PENDING, created_at=now, updated_at=now)
NewTask(input, t_now) ==
    [status |-> PENDING, assigned_to |-> None, assigned_at |-> NoTime,
     expires_at |-> NoTime, created_at |-> t_now,
     language |-> input.language, category |-> input.category,
     type |-> input.type, topic |-> input.topic, complexity |-> input.complexity]

\* TaskInDB.dict(): created_at and updated_at are datetime objects.
TaskInDB_dict(task_db) == model_dict(task_db, {"created_at", "updated_at"})

\* ResponseInDB.dict(): created_at is a datetime object.
ResponseInDB_dict(response_db) == model_dict(response_db, {"created_at"})

\* RedisService.store_response: store_json under response:<response_id>.
store_response(rs, data) ==
    IF json_dumps_raises(data) THEN rs ELSE Append(rs, data.fields)

\* update_task_status: the record it stores; completing sets completed_at
\* (updated_at, which nothing reads, is left out of the record).
StatusUpdated(task_data, status, t_now) ==
    IF status = COMPLETED
    THEN [completed_at |-> t_now] @@ [task_data EXCEPT !.status = status]
    ELSE [task_data EXCEPT !.status = status]

\* assign_task: "If assigned to someone else, don't reassign".
AssignDenied(task_data, session_id) ==
    /\ task_data.status = ASSIGNED
    /\ Truthy(task_data.assigned_to)
    /\ task_data.assigned_to # session_id

\* A variant of assign_task that hands the holder its lease back as it is.
AssignedRecordKeepsLease(task_data, session_id, t_now) ==
    IF task_data.status = ASSIGNED /\ task_data.assigned_to = session_id
    THEN task_data
    ELSE [task_data EXCEPT !.status = ASSIGNED,
                           !.assigned_to = session_id,
                           !.assigned_at = t_now,
                           !.expires_at = t_now + LeaseMinutes]

\* A variant of assign_task whose lease runs for one sweep interval.
AssignedRecordShortLease(task_data, session_id, t_now) ==
    [task_data EXCEPT !.status = ASSIGNED,
                      !.assigned_to = session_id,
                      !.assigned_at = t_now,
                      !.expires_at = t_now + TickMinutes]

\* assign_task: the record it stores.
AssignedRecord(task_data, session_id, t_now) ==
    [task_data EXCEPT !.status = ASSIGNED,
                      !.assigned_to = session_id,
                      !.assigned_at = t_now,
                      !.expires_at = t_now + LeaseMinutes]

\* A sweep that also expires a lease at the very instant of its expiry.
LeaseExpiredOrDue(task_data, t_now) ==
    /\ task_data.status = ASSIGNED
    /\ TruthyTime(task_data.expires_at)
    /\ t_now >= task_data.expires_at

\* process_expired_tasks: the test on one task record.
LeaseExpired(task_data, t_now) ==
    /\ task_data.status = ASSIGNED
    /\ TruthyTime(task_data.expires_at)
    /\ t_now > task_data.expires_at

\* A variant of process_expired_tasks that releases the task from its holder.
ExpiredRecordReleased(task_data) ==
    [task_data EXCEPT !.status = EXPIRED, !.assigned_to = None]

\* A variant of process_expired_tasks that requeues the task and leaves its
\* record with the holder.
ExpiredRecordStillAssigned(task_data) == task_data

\* process_expired_tasks: the record it stores.
ExpiredRecord(task_data) == [task_data EXCEPT !.status = EXPIRED]

\* The orders in which KEYS task:* may return the keys of S.
KeyOrders(S) ==
    {keys \in [1..Cardinality(S) -> S] :
        \A i, j \in 1..Cardinality(S) : keys[i] = keys[j] => i = j}

\* keys[offset:offset+limit]
Slice(keys, offset, limit) ==
    SubSeq(keys, offset + 1, Min(offset + limit, Len(keys)))

\* TaskService.list_tasks: the slice of the keys is taken first, the records
\* of the slice are then filtered on status (None stands for no filter).
list_tasks(store, keys, status, limit, offset) ==
    LET page == Slice(keys, offset, limit)
        kept == {i \in 1..Len(page) :
                    /\ page[i] \in DOMAIN store
                    /\ (status = None \/ store[page[i]].status = status)}
    IN  SelectSeqIn(page, {page[i] : i \in kept})

-----------------------------------------------------------------------------
(* Matching *)

\* The profile update_profile returns for a session with no stored profile:
\* create_profile(browser_info), every other part at its default.
CreatedProfile(browser_info) ==
    [languages |-> {browser_info.language} \cup browser_info.preferred_languages,
     top_domains |-> {},
     technical_level |-> 5,
     categories_completed |-> {},
     task_types_completed |-> {}]

\* find_task_for_user: the score of one task (times 2).
FindScore(task, profile) ==
      (IF task.language \in profile.languages THEN 2 * 2 ELSE 0)
    + (IF task.topic \in profile.top_domains THEN 2 * 3 ELSE 0)
    - Abs(2 * task.complexity - profile.technical_level)
    + (IF task.category \in profile.categories_completed THEN 2 * 1 ELSE 0)
    + (IF task.type \in profile.task_types_completed THEN 2 * 1 ELSE 0)

\* find_task_for_user: the first task of the window with the highest score
\* (list.sort is stable, also with reverse=True), 0 when the window is empty.
find_task_for_user(q, store, profile) ==
    LET window == get_next_tasks(q, store, WindowSize)
        score(i) == FindScore(store[window[i]], profile)
    IN  IF window = <<>> THEN 0
        ELSE LET best == CHOOSE i \in 1..Len(window) :
                            /\ \A j \in 1..Len(window) : score(j) <= score(i)
                            /\ \A j \in 1..(i - 1) : score(j) < score(i)
             IN  window[best]

\* list.sort(key=..., reverse=True): descending by key, elements of equal key
\* in their original order.  keys[i] is the key of s[i].
StableSortDesc(s, keys) ==
    LET n == Len(s)
        rank(i) == Cardinality({j \in 1..n :
                        \/ keys[j] > keys[i]
                        \/ (keys[j] = keys[i] /\ j < i)}) + 1
    IN  [k \in 1..n |-> s[CHOOSE i \in 1..n : rank(i) = k]]

DomainScore(item) == item[2]

\* The names of the first five expertise domains by score.  `domains` is the
\* dict expertise.domains as the sequence of its items.
TopDomains(domains) ==
    LET expertise_domains ==
            StableSortDesc(domains, [i \in 1..Len(domains) |-> DomainScore(domains[i])])
    IN  {expertise_domains[i][1] :
            i \in 1..Min(TopDomainCount, Len(expertise_domains))}

\* What both matching functions read of a UserProfile.  technical_level is
\* in tenths.
ProfileView(user_profile) ==
    [languages |-> {user_profile.language} \cup user_profile.preferred_languages,
     top_domains |-> TopDomains(user_profile.domains),
     technical_level |-> user_profile.technical_level,
     categories_completed |-> user_profile.categories_completed,
     task_types_completed |-> user_profile.task_types_completed]

\* match_tasks_to_user: the score of one task (times 2).  complexity_diff <= 1
\* gives +2, otherwise the difference is subtracted.
MatchScore(task, profile) ==
    LET complexity_diff == Abs(2 * task.complexity - profile.technical_level)
    IN    (IF task.language \in profile.languages THEN 2 * 2 ELSE 0)
        + (IF task.topic \in profile.top_domains THEN 2 * 3 ELSE 0)
        + (IF complexity_diff <= 2 * 1 THEN 2 * 2 ELSE 0 - complexity_diff)
        + (IF task.category \in profile.categories_completed THEN 2 * 1 ELSE 0)
        + (IF task.type \in profile.task_types_completed THEN 2 * 1 ELSE 0)

match_score(m) == m.match_score

\* match_tasks_to_user without the sort of line 256.
match_tasks_unsorted(q, store, profile, limit) ==
    LET window == get_next_tasks(q, store, WindowSize)
        matches == [i \in 1..Len(window) |->
                       [task_id |-> window[i],
                        match_score |-> MatchScore(store[window[i]], profile)]]
    IN  Slice(matches, 0, limit)

\* match_tasks_to_user: the matches of the window, sorted, cut at limit
\* (limit >= 0).
match_tasks_to_user(q, store, profile, limit) ==
    LET window == get_next_tasks(q, store, WindowSize)
        matches == [i \in 1..Len(window) |->
                       [task_id |-> window[i],
                        match_score |-> MatchScore(store[window[i]], profile)]]
        scores == [i \in 1..Len(matches) |-> match_score(matches[i])]
    IN  Slice(StableSortDesc(matches, scores), 0, limit)

\* The browser_info of a profile update; NoBrowserInfo is an update without one.
NoBrowserInfo == [language |-> None, preferred_languages |-> {}]

BrowserInfos ==
    { [language |-> "en", preferred_languages |-> {}],
      [language |-> "fr", preferred_languages |-> {"en"}],
      NoBrowserInfo }

-----------------------------------------------------------------------------
(* Initial state: an empty store *)

NoSweep == [phase |-> "idle", keys |-> {}, task_id |-> 0, task_data |-> None,
            started |-> 0, count |-> 0]

\* The task records and queue entries a Redis database holds when the server
\* connects to it: for each id of S the JSON form of a pending task created at
\* time 0, queued at its base priority.
StoredTasks(S) == [t \in S |-> NewTask(TaskInput(t), 0)]

StoredQueue(S) == [t \in S |-> base_priority(NewTask(TaskInput(t), 0))]

Init ==
    /\ \E S \in SUBSET TaskIds : tasks = StoredTasks(S) /\ queue = StoredQueue(S)
    /\ responses = <<>>
    /\ users = EmptyMap
    /\ tasks_assigned = 0
    /\ now = 0
    /\ last = Ret("init", 0, None, <<>>, FALSE, 0)
    /\ assign_calls = EmptyMap
    /\ submit_calls = EmptyMap
    /\ sweep = NoSweep

-----------------------------------------------------------------------------
(* Request handlers and jobs, each as one atomic step *)

\* POST /tasks/ : create_task calls store_task(task_db.dict()); the background
\* job queue_task(task_db), run as the response goes out, calls
\* add_task_to_queue(task.dict(), priority): store_task again, then ZADD.
\* Both store_task calls end in store_json, whose json.dumps raises on the
\* datetime objects of the dict: no record is written, the id is queued.
CreateTask(t, input) ==
    /\ LET task_db == NewTask(input, now)
           created == store_json(tasks, t, TaskInDB_dict(task_db))
       IN  /\ tasks' = store_json(created, t, TaskInDB_dict(task_db))
           /\ queue' = add_to_sorted_set(queue, t, base_priority(task_db))
    /\ last' = Ret("create_task", t, None, <<>>, TRUE, 0)
    /\ UNCHANGED <<responses, tasks_assigned, now, users, inflight>>

\* The effect of assign_task(task_id, session_id) on the store, and its return.
AssignTaskCall(op, t, w) ==
    IF t \notin DOMAIN tasks \/ AssignDenied(tasks[t], w)
    THEN /\ UNCHANGED <<tasks, tasks_assigned>>
         /\ last' = Ret(op, t, w, Found(tasks, t), FALSE, 0)
    ELSE /\ tasks' = Put(tasks, t, AssignedRecord(tasks[t], w, now))
         /\ tasks_assigned' = tasks_assigned + 1
         /\ last' = Ret(op, t, w, Found(tasks, t), TRUE, 0)

\* TaskService.assign_task(task_id, session_id)
AssignTask(t, w) ==
    /\ tasks_assigned < MaxAssigned
    /\ AssignTaskCall("assign_task", t, w)
    /\ UNCHANGED <<queue, responses, now, users, inflight>>

\* A quotient, kept as numerator and denominator.
Quotient(num, den) == <<num, den>>

\* A stored profile: session_id, last_active and task_history.quality_score
\* (default 0.5), in tenths.
UserProfileRecord(session_id, last_active) ==
    [session_id |-> session_id, last_active |-> last_active,
     quality_score |-> Quotient(DefaultScore, 1)]

\* uuid.uuid4(): the session id create_profile gives the profile it makes.
\* It is not the session_id of the request.
Uuid4 == "uuid4"

\* UserProfile.dict(): created_at, updated_at and last_active are datetime
\* objects.
UserProfile_dict(profile) == model_dict(profile, {"created_at", "updated_at", "last_active"})

\* RedisService.store_user_profile: store_json under user:<session_id>.
store_user_profile(store, data) == store_json(store, data.fields.session_id, data)

\* UserService.update_profile(session_id, update) for a session with no
\* stored profile: create_profile(update.browser_info), which takes a new
\* uuid for the profile and stores it under that.
update_profile(store, session_id, browser_info, t_now) ==
    store_user_profile(store, UserProfile_dict(UserProfileRecord(Uuid4, t_now)))

\* POST /tasks/request by a session with no stored profile: update_profile,
\* find_task_for_user, assign_task.
\* A request without browser_info for a session with no stored profile raises
\* (HTTP 500) before any task is looked at.
RequestTask(w, browser_info) ==
    /\ tasks_assigned < MaxAssigned
    /\ w \notin DOMAIN users
    /\ IF browser_info = NoBrowserInfo
       THEN /\ last' = Ret("request_task", 0, w, <<>>, FALSE, 0)
            /\ UNCHANGED <<tasks, tasks_assigned, users>>
       ELSE /\ users' = update_profile(users, w, browser_info, now)
            /\ LET t == find_task_for_user(queue, tasks, CreatedProfile(browser_info))
               IN  IF t = 0
                   THEN /\ last' = Ret("request_task", 0, w, <<>>, FALSE, 0)
                        /\ UNCHANGED <<tasks, tasks_assigned>>
                   ELSE AssignTaskCall("request_task", t, w)
    /\ UNCHANGED <<queue, responses, now, inflight>>

\* submit_response: "make sure it exists and is assigned to this user".
SubmitRejected(store, t, w) ==
    \/ t \notin DOMAIN store
    \/ store[t].status # ASSIGNED
    \/ store[t].assigned_to # w

\* POST /responses/ : store_response (which writes nothing: json.dumps raises
\* on created_at), then update_task_status(COMPLETED).
SubmitResponse(t, w) ==
    /\ Len(responses) < MaxResponses
    /\ IF SubmitRejected(tasks, t, w)
       THEN /\ last' = Ret("submit_response", t, w, Found(tasks, t), FALSE, 0)
            /\ UNCHANGED <<tasks, responses>>
       ELSE /\ responses' = store_response(responses,
                               ResponseInDB_dict([task_id |-> t, session_id |-> w,
                                                  created_at |-> now]))
            /\ tasks' = Put(tasks, t, StatusUpdated(tasks[t], COMPLETED, now))
            /\ last' = Ret("submit_response", t, w, Found(tasks, t), TRUE, 0)
    /\ UNCHANGED <<queue, tasks_assigned, now, users, inflight>>

\* The Celery job process_expired_tasks, run to its end.
ProcessExpiredTasks ==
    LET expired == {t \in DOMAIN tasks : LeaseExpired(tasks[t], now)}
    IN  /\ tasks' = [t \in DOMAIN tasks |->
                        IF t \in expired THEN ExpiredRecord(tasks[t]) ELSE tasks[t]]
        /\ queue' = [t \in (DOMAIN queue) \cup expired |->
                        IF t \in expired THEN RequeuePriority * ScoreScale ELSE queue[t]]
        /\ last' = Ret("process_expired_tasks", 0, None, <<>>, TRUE, Cardinality(expired))
        /\ UNCHANGED <<responses, tasks_assigned, now, users, inflight>>

\* stats:task:<id>:responses is read by the rebalancer and written by nothing
\* in this repository: the GET returns nothing, which counts as 0.  Where the
\* database holds the key, its value is kept with the task's record.
response_count(task_data) ==
    IF "responses_stat" \in DOMAIN task_data THEN task_data.responses_stat ELSE 0

\* analyze_task_distribution: the new score of one queue entry.
new_priority(priority, task_data, t_now) ==
    LET age_boost == Min(t_now - task_data.created_at, MaxAgeBoost * ScoreScale)
        response_boost == Max(MaxResponseBoost - response_count(task_data), 0) * ScoreScale
    IN  priority + age_boost + response_boost

\* A rebalancer that also applies a difference of exactly 1.0.
AdjustedFromOne(priority, task_data, t_now) ==
    Abs(new_priority(priority, task_data, t_now) - priority) >= 1 * ScoreScale

\* analyze_task_distribution: "Update priority if it changed significantly".
Adjusted(priority, task_data, t_now) ==
    Abs(new_priority(priority, task_data, t_now) - priority) > 1 * ScoreScale

\* The Celery job analyze_task_distribution, run to its end.  It returns
\* tasks_analyzed (kept in `found`) and priorities_adjusted (in `count`).
AnalyzeTaskDistribution ==
    /\ \A t \in DOMAIN queue : queue[t] < MaxPriority * ScoreScale
    /\ LET analyzed == (DOMAIN queue) \cap (DOMAIN tasks)
           adjusted == {t \in analyzed : Adjusted(queue[t], tasks[t], now)}
       IN  /\ queue' = [t \in DOMAIN queue |->
                           IF t \in adjusted
                           THEN new_priority(queue[t], tasks[t], now)
                           ELSE queue[t]]
           /\ last' = Ret("analyze_task_distribution", 0, None,
                          <<Cardinality(analyzed)>>, TRUE, Cardinality(adjusted))
    /\ UNCHANGED <<tasks, responses, tasks_assigned, now, users, inflight>>

\* Time passes, by one sweep interval.  A handler or a job run lasts far less
\* than that: no call is in progress across a tick.
Tick ==
    /\ now < MaxTicks * TickMinutes
    /\ assign_calls = EmptyMap /\ submit_calls = EmptyMap /\ sweep = NoSweep
    /\ now' = now + TickMinutes
    /\ last' = Ret("tick", 0, None, <<>>, FALSE, 0)
    /\ UNCHANGED <<tasks, queue, responses, users, tasks_assigned, inflight>>

Next ==
    \/ \E t \in TaskIds : CreateTask(t, TaskInput(t))
    \/ \E t \in TaskIds, w \in Sessions : AssignTask(t, w)
    \/ \E w \in Sessions, b \in BrowserInfos : RequestTask(w, b)
    \/ \E t \in TaskIds, w \in Sessions : SubmitResponse(t, w)
    \/ ProcessExpiredTasks
    \/ Tick

Spec == Init /\ [][Next]_vars

-----------------------------------------------------------------------------
(* The same handlers split between the Redis GET of a record and the writes  *)
(* that follow from it.  Calls of different sessions and the Celery job      *)
(* interleave at these points.  What a split call reads, decides and returns *)
(* is in its call record; `last` keeps to the calls that are not split.      *)

Remove(f, k) == [x \in (DOMAIN f) \ {k} |-> f[x]]

Inflight == Cardinality(DOMAIN assign_calls) + Cardinality(DOMAIN submit_calls)

\* assign_task, lines 106-114: GET the record and decide.  A call that is
\* denied returns at once; a call that goes on holds the record it read.
\* `concurrent` is the set of sessions whose assign_task call for the same
\* task ran at the same time: between this call's GET and its SET.
AssignRead(t, w) ==
    /\ w \notin DOMAIN assign_calls
    /\ w \notin DOMAIN submit_calls
    /\ Inflight < MaxInflight
    /\ tasks_assigned + Cardinality(DOMAIN assign_calls) < MaxAssigned
    /\ IF t \notin DOMAIN tasks \/ AssignDenied(tasks[t], w)
       THEN /\ UNCHANGED last
            /\ UNCHANGED assign_calls
       ELSE LET others == {v \in DOMAIN assign_calls : assign_calls[v].task_id = t}
            IN  /\ assign_calls' =
                     [v \in (DOMAIN assign_calls) \cup {w} |->
                        IF v = w
                        THEN [task_id |-> t, task_data |-> tasks[t], concurrent |-> others]
                        ELSE IF v \in others
                             THEN [assign_calls[v] EXCEPT !.concurrent = @ \cup {w}]
                             ELSE assign_calls[v]]
                /\ UNCHANGED last
    /\ UNCHANGED <<tasks, queue, responses, tasks_assigned, now, users,
                   submit_calls, sweep>>

\* assign_task, lines 116-132: SET the record built from the one read, INCR,
\* return the lease.
AssignWrite(w) ==
    /\ w \in DOMAIN assign_calls
    /\ LET call == assign_calls[w]
       IN  /\ tasks' = Put(tasks, call.task_id, AssignedRecord(call.task_data, w, now))
           /\ UNCHANGED last
    /\ assign_calls' = Remove(assign_calls, w)
    /\ tasks_assigned' = tasks_assigned + 1
    /\ UNCHANGED <<queue, responses, now, users, submit_calls, sweep>>

\* submit_response, lines 35-40: GET the task and check the lease.
SubmitRead(t, w) ==
    /\ w \notin DOMAIN submit_calls
    /\ w \notin DOMAIN assign_calls
    /\ Inflight < MaxInflight
    /\ Len(responses) + Cardinality(DOMAIN submit_calls) < MaxResponses
    /\ IF SubmitRejected(tasks, t, w)
       THEN /\ UNCHANGED last
            /\ UNCHANGED submit_calls
       ELSE /\ submit_calls' = Put(submit_calls, w,
                [task_id |-> t, phase |-> "checked", task_data |-> tasks[t]])
            /\ UNCHANGED last
    /\ UNCHANGED <<tasks, queue, responses, tasks_assigned, now, users,
                   assign_calls, sweep>>

\* submit_response, lines 42-53: store_response.
SubmitStore(w) ==
    /\ w \in DOMAIN submit_calls
    /\ submit_calls[w].phase = "checked"
    /\ responses' = store_response(responses,
                       ResponseInDB_dict([task_id |-> submit_calls[w].task_id,
                                          session_id |-> w, created_at |-> now]))
    /\ submit_calls' = [submit_calls EXCEPT ![w].phase = "stored"]
    /\ UNCHANGED <<tasks, queue, tasks_assigned, now, users, last,
                   assign_calls, sweep>>

\* update_task_status, lines 84-86: GET the record again.  A record that has
\* gone makes update_task_status return None; submit_response goes on.
SubmitUpdateRead(w) ==
    /\ w \in DOMAIN submit_calls
    /\ submit_calls[w].phase = "stored"
    /\ LET t == submit_calls[w].task_id
       IN  IF t \in DOMAIN tasks
           THEN /\ submit_calls' = [submit_calls EXCEPT ![w].phase = "updating",
                                                        ![w].task_data = tasks[t]]
                /\ UNCHANGED last
           ELSE /\ submit_calls' = Remove(submit_calls, w)
                /\ UNCHANGED last
    /\ UNCHANGED <<tasks, queue, responses, tasks_assigned, now, users,
                   assign_calls, sweep>>

\* update_task_status, lines 88-102: SET the record with the new status;
\* submit_response returns the response.
SubmitUpdateWrite(w) ==
    /\ w \in DOMAIN submit_calls
    /\ submit_calls[w].phase = "updating"
    /\ LET call == submit_calls[w]
       IN  /\ tasks' = Put(tasks, call.task_id, StatusUpdated(call.task_data, COMPLETED, now))
           /\ UNCHANGED last
    /\ submit_calls' = Remove(submit_calls, w)
    /\ UNCHANGED <<queue, responses, tasks_assigned, now, users,
                   assign_calls, sweep>>

\* process_expired_tasks, lines 51-53: KEYS task:*, now = utcnow().
SweepStart ==
    /\ sweep.phase = "idle"
    /\ sweep' = [phase |-> "scan", keys |-> DOMAIN tasks, task_id |-> 0,
                 task_data |-> None, started |-> now, count |-> 0]
    /\ UNCHANGED <<tasks, queue, responses, tasks_assigned, now, users, last,
                   assign_calls, submit_calls>>

\* process_expired_tasks, lines 55-69: GET the next key (KEYS gives them in
\* no particular order) and test the record.  A record that passes the test
\* is held in task_data until it is written back.
SweepRead(t) ==
    /\ sweep.phase = "scan"
    /\ t \in sweep.keys
    /\ IF t \in DOMAIN tasks /\ LeaseExpired(tasks[t], sweep.started)
       THEN sweep' = [sweep EXCEPT !.phase = "expire", !.keys = @ \ {t},
                                   !.task_id = t, !.task_data = tasks[t]]
       ELSE sweep' = [sweep EXCEPT !.keys = @ \ {t}]
    /\ UNCHANGED <<tasks, queue, responses, tasks_assigned, now, users, last,
                   assign_calls, submit_calls>>


\* process_expired_tasks, lines 70-80: SET the held record with status
\* expired, ZADD the id at 5.0, count it.
SweepWrite ==
    /\ sweep.phase = "expire"
    /\ tasks' = Put(tasks, sweep.task_id, ExpiredRecord(sweep.task_data))
    /\ queue' = add_to_sorted_set(queue, sweep.task_id, RequeuePriority * ScoreScale)
    /\ sweep' = [sweep EXCEPT !.phase = "scan", !.task_id = 0, !.task_data = None,
                              !.count = @ + 1]
    /\ UNCHANGED <<responses, tasks_assigned, now, users, last,
                   assign_calls, submit_calls>>

\* process_expired_tasks, lines 82-83: every key has been looked at.
SweepEnd ==
    /\ sweep.phase = "scan"
    /\ sweep.keys = {}
    /\ UNCHANGED last
    /\ sweep' = NoSweep
    /\ UNCHANGED <<tasks, queue, responses, tasks_assigned, now, users,
                   assign_calls, submit_calls>>

NextInterleaved ==
    \/ \E t \in TaskIds : CreateTask(t, TaskInput(t))
    \/ \E t \in TaskIds, w \in Sessions : AssignRead(t, w)
    \/ \E w \in Sessions : AssignWrite(w)
    \/ \E t \in TaskIds, w \in Sessions : SubmitRead(t, w)
    \/ \E w \in Sessions : SubmitStore(w)
    \/ \E w \in Sessions : SubmitUpdateRead(w)
    \/ \E w \in Sessions : SubmitUpdateWrite(w)
    \/ SweepStart
    \/ \E t \in TaskIds : SweepRead(t)
    \/ SweepWrite
    \/ SweepEnd
    \/ Tick

SpecInterleaved == Init /\ [][NextInterleaved]_vars

-----------------------------------------------------------------------------
(* Retention: the Celery job clean_old_data, with time passing in days, and  *)
(* the rebalancer analyze_task_distribution beside it.                       *)

\* (now - created_at).days
age_days(created_at, t_now) == (t_now - created_at) \div DayMinutes

\* clean_old_data: DEL every task:* key older than 90 days, every response:*
\* key older than 90 days and every user:* key whose last_active is more than
\* 60 days back.  The queue is not touched.
CleanOldData ==
    LET old == {t \in DOMAIN tasks :
                   age_days(tasks[t].created_at, now) > TaskMaxAgeDays}
        kept(r) == ~ (age_days(r.created_at, now) > ResponseMaxAgeDays)
        inactive == {w \in DOMAIN users :
                        age_days(users[w].last_active, now) > UserMaxAgeDays}
    IN  /\ tasks' = [t \in (DOMAIN tasks) \ old |-> tasks[t]]
        /\ responses' = SelectSeq(responses, kept)
        /\ users' = [w \in (DOMAIN users) \ inactive |-> users[w]]
        /\ last' = Ret("clean_old_data", 0, None, <<>>, TRUE,
                       Cardinality(old) + Len(responses) - Len(SelectSeq(responses, kept))
                           + Cardinality(inactive))
        /\ UNCHANGED <<queue, tasks_assigned, now, inflight>>

\* The numbers of days that pass in one step.
DaySteps == {45, 46}

PassDays(d) ==
    /\ now + d * DayMinutes <= MaxDays * DayMinutes
    /\ now' = now + d * DayMinutes
    /\ last' = Ret("tick", 0, None, <<>>, FALSE, 0)
    /\ UNCHANGED <<tasks, queue, responses, users, tasks_assigned, inflight>>

NextRetention ==
    \/ \E t \in TaskIds : CreateTask(t, TaskInput(t))
    \/ \E t \in TaskIds, w \in Sessions : AssignTask(t, w)
    \/ \E t \in TaskIds, w \in Sessions : SubmitResponse(t, w)
    \/ ProcessExpiredTasks
    \/ AnalyzeTaskDistribution
    \/ CleanOldData
    \/ \E d \in DaySteps : PassDays(d)

SpecRetention == Init /\ [][NextRetention]_vars

-----------------------------------------------------------------------------
(* process_expired_tasks over records whose expiry it cannot compare.        *)
(* The job rewrites a trailing "Z" of expires_at to "+00:00" before          *)
(* datetime.fromisoformat: such a timestamp parses to a timezone-aware       *)
(* datetime, and `now > expires_at` with now = datetime.utcnow() (naive)     *)
(* raises TypeError.  Nothing in the loop catches it.                        *)

\* An ISO timestamp with a UTC designator ("...Z") for minute t.  The numbers
\* below NoTime stand for these; assign_task never writes one.
ZuluTime(t) == 0 - 2 - t

IsZulu(v) == v < NoTime

\* process_expired_tasks, lines 60-69: the record passes the status test and
\* the comparison of now with its expiry raises.
CompareRaises(task_data) ==
    /\ task_data.status = ASSIGNED
    /\ TruthyTime(task_data.expires_at)
    /\ IsZulu(task_data.expires_at)

\* A record leased by a producer that stamps its timestamps with "Z".
ZuluLease(task_data, session_id, t_now) ==
    [task_data EXCEPT !.status = ASSIGNED,
                      !.assigned_to = session_id,
                      !.assigned_at = ZuluTime(t_now),
                      !.expires_at = ZuluTime(t_now + LeaseMinutes)]

\* The Redis database at connection time: each task pending, or leased with
\* "Z" timestamps.
InitSweepFaults ==
    /\ \E Z \in SUBSET TaskIds :
          tasks = [t \in TaskIds |->
                     IF t \in Z THEN ZuluLease(StoredTasks(TaskIds)[t], "w1", 0)
                     ELSE StoredTasks(TaskIds)[t]]
    /\ queue = StoredQueue(TaskIds)
    /\ responses = <<>>
    /\ users = EmptyMap
    /\ tasks_assigned = 0
    /\ now = 0
    /\ last = Ret("init", 0, None, <<>>, FALSE, 0)
    /\ assign_calls = EmptyMap
    /\ submit_calls = EmptyMap
    /\ sweep = NoSweep

\* process_expired_tasks, lines 55-69, on a record it can compare.
SweepCompare(t) ==
    /\ t \in DOMAIN tasks => ~ CompareRaises(tasks[t])
    /\ SweepRead(t)

\* process_expired_tasks, line 69, raising: the exception leaves the loop and
\* the job; the keys not yet looked at stay as they are.
SweepRaise(t) ==
    /\ sweep.phase = "scan"
    /\ t \in sweep.keys
    /\ t \in DOMAIN tasks
    /\ CompareRaises(tasks[t])
    /\ sweep' = NoSweep
    /\ last' = Ret("process_expired_tasks", t, None, Found(tasks, t), FALSE, sweep.count)
    /\ UNCHANGED <<tasks, queue, responses, tasks_assigned, now, users,
                   assign_calls, submit_calls>>

NextSweepFaults ==
    \/ \E t \in TaskIds, w \in Sessions : AssignTask(t, w)
    \/ SweepStart
    \/ \E t \in TaskIds : SweepCompare(t)
    \/ \E t \in TaskIds : SweepRaise(t)
    \/ SweepWrite
    \/ SweepEnd
    \/ Tick

SpecSweepFaults == InitSweepFaults /\ [][NextSweepFaults]_vars

-----------------------------------------------------------------------------
(* The matching functions find_task_for_user and match_tasks_to_user, applied *)
(* to profiles and stores drawn from bounded sets.                            *)

\* A task that fills the head of the queue: complexity 5, score 0.
FillerBody ==
    [language |-> "de", category |-> "audio", type |-> "vqa", topic |-> "misc", complexity |-> 5]

\* The bodies of the tasks behind the fillers.
MatchBodies == {[TaskInput(i) EXCEPT !.complexity = c] : i \in TaskIds, c \in {1, 3, 5}}

\* A store with n fillers (ids 1..n) and the tasks of `bodies` behind them,
\* every id queued at its base priority.  With `dangling` the fillers are
\* queued without a record, as POST /tasks/ leaves them.
MatchBody(n, bodies, t) == IF t <= n THEN FillerBody ELSE bodies[t - n]

MatchTasks(n, bodies, dangling) ==
    [t \in (IF dangling THEN {} ELSE 1..n) \cup ((n + 1)..(n + Len(bodies))) |->
        NewTask(MatchBody(n, bodies, t), 0)]

MatchQueue(n, bodies) ==
    [t \in 1..(n + Len(bodies)) |-> base_priority(NewTask(MatchBody(n, bodies, t), 0))]

\* expertise.domains with six entries: "sports" is among the first five by
\* score, "news" is not (it ties with "design", which comes before it).
SixDomains ==
    << <<"sports", 9>>, <<"music", 8>>, <<"travel", 7>>, <<"food", 6>>,
       <<"design", 5>>, <<"news", 5>> >>

\* The UserProfile bodies the model draws from.  technical_level is in tenths.
MatchProfiles ==
    [language : {"en", "fr"},
     preferred_languages : {{}, {"en"}},
     domains : {<<>>, SixDomains},
     technical_level : {2, 5, 6},
     categories_completed : {{}, {"text"}},
     task_types_completed : {{"rating"}}]

InitMatch ==
    /\ \E n \in {0, 1, MaxFiller - 1, MaxFiller}, dangling \in BOOLEAN,
          bodies \in {<<>>} \cup (MatchBodies \X MatchBodies) :
            /\ tasks = MatchTasks(n, bodies, dangling)
            /\ queue = MatchQueue(n, bodies)
    /\ responses = <<>>
    /\ users = EmptyMap
    /\ tasks_assigned = 0
    /\ now = 0
    /\ last = Ret("init", 0, None, <<>>, FALSE, 0)
    /\ assign_calls = EmptyMap
    /\ submit_calls = EmptyMap
    /\ sweep = NoSweep

\* What a finished matching call leaves behind: the call, its arguments and
\* its return value (task_id 0 for None).
MatchRet(op, user_profile, limit, t, matches) ==
    [op |-> op, profile |-> user_profile, limit |-> limit, task_id |-> t,
     matches |-> matches]

\* find_task_for_user leasing the task it found to the profile's session.
FindTaskForUserLeasing(user_profile) ==
    LET t == find_task_for_user(queue, tasks, ProfileView(user_profile))
    IN  /\ last.op = "init"
        /\ last' = MatchRet("find_task_for_user", user_profile, 0, t, <<>>)
        /\ tasks' = IF t = 0 THEN tasks ELSE Put(tasks, t, AssignedRecord(tasks[t], "w1", now))
        /\ tasks_assigned' = IF t = 0 THEN tasks_assigned ELSE tasks_assigned + 1
        /\ UNCHANGED <<queue, responses, now, users, inflight>>

\* TaskService.find_task_for_user(user_profile), applied to the drawn store.
\* Each behaviour applies one call: a second call would see the store the
\* first one saw.
FindTaskForUser(user_profile) ==
    /\ last.op = "init"
    /\ last' = MatchRet("find_task_for_user", user_profile, 0,
                        find_task_for_user(queue, tasks, ProfileView(user_profile)), <<>>)
    /\ UNCHANGED <<tasks, queue, responses, tasks_assigned, now, users, inflight>>

\* TaskService.match_tasks_to_user(user_profile, limit), applied to the drawn
\* store.
MatchTasksToUser(user_profile, limit) ==
    /\ last.op = "init"
    /\ last' = MatchRet("match_tasks_to_user", user_profile, limit, 0,
                        match_tasks_to_user(queue, tasks, ProfileView(user_profile), limit))
    /\ UNCHANGED <<tasks, queue, responses, tasks_assigned, now, users, inflight>>

NextMatch ==
    \/ \E p \in MatchProfiles : FindTaskForUser(p)
    \/ \E p \in MatchProfiles, limit \in 0..MaxLimit : MatchTasksToUser(p, limit)

SpecMatch == InitMatch /\ [][NextMatch]_vars

-----------------------------------------------------------------------------
(* The quality path: process_response and submit_feedback on the response   *)
(* records the store holds.  Quality scores are in tenths.  A record that    *)
(* submit_response would store is never written (json.dumps raises on its   *)
(* created_at), so the records these operations find are the ones the Redis *)
(* database already holds.                                                   *)

\* A null quality_score, and a quality_score of v tenths.
NoScore == <<>>

ScoreOf(v) == <<v>>

\* JSON values of response_data and of a task's correct_answer.
JsonFalse == "json:false"

JsonTrue == "json:true"

AnswerValues == {None, JsonFalse, JsonTrue, "str:A", "str:B"}

\* Python truthiness of a correct_answer read back from JSON.
TruthyAnswer(v) == v # None /\ v # JsonFalse

\* task.get("correct_answer")
correct_answer_of(task) ==
    IF "correct_answer" \in DOMAIN task THEN task.correct_answer ELSE None

\* TaskService._check_response_quality(response, task), in tenths.
check_response_quality(response, task) ==
    LET fast == IF response.response_time_ms < MinExpectedTime THEN FastPenalty ELSE 0
        correct_answer == correct_answer_of(task)
        wrong == IF TruthyAnswer(correct_answer) /\ response.response_data # correct_answer
                 THEN WrongPenalty ELSE 0
    IN  Max(0, Min(ScoreOne, DefaultScore - fast - wrong))

\* process_response, lines 278-285.
quality_level_of(quality_score) ==
    IF quality_score >= HighThreshold THEN "high"
    ELSE IF quality_score >= MediumThreshold THEN "medium"
    ELSE IF quality_score >= LowThreshold THEN "low"
    ELSE "spam"

\* A ResponseInDB as submit_response builds it; response_id 0 is an id no
\* stored record has.
ResponseObject(response_id, t, w, response_time_ms, response_data) ==
    [response_id |-> response_id, task_id |-> t, session_id |-> w,
     response_time_ms |-> response_time_ms, response_data |-> response_data,
     created_at |-> 0, quality_score |-> NoScore, quality_level |-> None]

\* The response bodies the model draws from.
ResponseTimes == {500, 5000}

ResponseDatas == {JsonTrue, "str:A"}

\* The stored responses of a database: response i has response_id i.
StoredResponses ==
    UNION {[1..n -> {ResponseObject(0, 1, "w1", ms, d) :
                        ms \in ResponseTimes, d \in ResponseDatas}] : n \in 0..MaxStored}

WithIds(rs) == [i \in 1..Len(rs) |-> [rs[i] EXCEPT !.response_id = i]]

\* get_response(response_id): the index of the record, 0 for none.
get_response(rs, response_id) == IF response_id \in 1..Len(rs) THEN response_id ELSE 0

\* What a quality call leaves behind: the call, its arguments, whether it
\* found what it looked for, and the score it computed or was given.
QualityRet(op, response, found, quality_score) ==
    [op |-> op, response |-> response, found |-> found, quality_score |-> quality_score]

InitQuality ==
    /\ \E a \in AnswerValues :
          tasks = [t \in {1} |-> [correct_answer |-> a] @@ NewTask(TaskInput(t), 0)]
    /\ queue = StoredQueue({1})
    /\ \E rs \in StoredResponses : responses = WithIds(rs)
    /\ users = EmptyMap
    /\ tasks_assigned = 0
    /\ now = 0
    /\ last = Ret("init", 0, None, <<>>, FALSE, 0)
    /\ assign_calls = EmptyMap
    /\ submit_calls = EmptyMap
    /\ sweep = NoSweep

\* TaskService.process_response(response)
ProcessResponse(response) ==
    /\ IF response.task_id \notin DOMAIN tasks
       THEN /\ last' = QualityRet("process_response", response, FALSE, NoScore)
            /\ UNCHANGED responses
       ELSE LET quality_score == check_response_quality(response, tasks[response.task_id])
                i == get_response(responses, response.response_id)
            IN  /\ last' = QualityRet("process_response", response, i # 0,
                                      ScoreOf(quality_score))
                /\ responses' =
                      IF i = 0 THEN responses
                      ELSE [responses EXCEPT
                              ![i].quality_score = ScoreOf(quality_score),
                              ![i].quality_level = quality_level_of(quality_score)]
    /\ UNCHANGED <<tasks, queue, users, tasks_assigned, now, inflight>>

\* The feedback bodies the model draws from: feedback_type and score.
FeedbackTypes == {"quality", "review"}

FeedbackScores == {NoScore, ScoreOf(0), ScoreOf(3), ScoreOf(9)}

\* submit_feedback recomputing quality_level from the score it was given.
FeedbackRecordWithLevel(response, score) ==
    [response EXCEPT !.quality_score = score,
                     !.quality_level = quality_level_of(score[1])]

\* The record submit_feedback stores for a quality feedback with a score.
FeedbackRecord(response, score) == [response EXCEPT !.quality_score = score]

\* POST /responses/feedback/{response_id}.  The feedback itself is stored
\* under feedback:<response_id>:<feedback_type>, a key nothing reads.
SubmitFeedback(response_id, feedback_type, score) ==
    LET i == get_response(responses, response_id)
    IN  /\ last' = QualityRet("submit_feedback",
                              [response_id |-> response_id, feedback_type |-> feedback_type],
                              i # 0, score)
        /\ responses' =
              IF i # 0 /\ feedback_type = "quality" /\ score # NoScore
              THEN [responses EXCEPT ![i] = FeedbackRecord(responses[i], score)]
              ELSE responses
        /\ UNCHANGED <<tasks, queue, users, tasks_assigned, now, inflight>>

\* The responses process_response is called with: a stored record, or a
\* response whose record was not written.
NextQuality ==
    \/ \E i \in 1..Len(responses) : ProcessResponse(responses[i])
    \/ \E t \in TaskIds, ms \in ResponseTimes, d \in ResponseDatas :
          ProcessResponse(ResponseObject(0, t, "w1", ms, d))
    \/ \E i \in 0..MaxStored, ft \in FeedbackTypes, score \in FeedbackScores :
          SubmitFeedback(i, ft, score)

SpecQuality == InitQuality /\ [][NextQuality]_vars

-----------------------------------------------------------------------------
(* Workers requesting tasks while the periodic jobs run: request_task, the  *)
(* rebalancer and the sweep on a queue that is longer than the window.      *)

\* The two tasks behind the fillers: complexity 1 (score 8), complexity 3
\* (score 4).
StarveBodies == <<TaskInput(1), TaskInput(2)>>

\* The id of a task that is POSTed while the workers request.
NewTaskId == MaxFiller + 3

\* The ids of the two tasks behind the fillers.
StarveIds == {MaxFiller, MaxFiller + 1}

\* The queue holds MaxFiller - 1 fillers and the two tasks behind them; the
\* fillers have records or not.
InitStarve ==
    /\ \E dangling \in BOOLEAN :
          /\ tasks = MatchTasks(MaxFiller - 1, StarveBodies, dangling)
          /\ queue = MatchQueue(MaxFiller - 1, StarveBodies)
    /\ responses = <<>>
    /\ users = EmptyMap
    /\ tasks_assigned = 0
    /\ now = 0
    /\ last = Ret("init", 0, None, <<>>, FALSE, 0)
    /\ assign_calls = EmptyMap
    /\ submit_calls = EmptyMap
    /\ sweep = NoSweep

\* A worker that requests again and again, always with browser_info.
Requests == \E w \in Sessions, b \in BrowserInfos \ {NoBrowserInfo} : RequestTask(w, b)

NextStarve ==
    \/ Requests
    \/ CreateTask(NewTaskId, TaskInput(2))
    \/ AnalyzeTaskDistribution
    \/ ProcessExpiredTasks
    \/ Tick

\* A request can be made whenever RequestTask's first conjunct holds, and it
\* then leaves its return value in `last`.
RequestsEnabled == tasks_assigned < MaxAssigned

\* Weak fairness of Requests, with its enabling condition written out: the
\* workers keep requesting for as long as they can.
FairRequests == []<>(~ RequestsEnabled) \/ []<><<Requests>>_vars

\* The beat schedule runs both jobs at every period and the workers keep
\* requesting: none of them is put off for ever.
SpecStarve ==
    /\ InitStarve
    /\ [][NextStarve]_vars
    /\ FairRequests
    /\ WF_vars(AnalyzeTaskDistribution)
    /\ WF_vars(ProcessExpiredTasks)
    /\ WF_vars(Tick)

-----------------------------------------------------------------------------
(* The batch endpoints POST /tasks/batch and POST /responses/batch: a loop   *)
(* over the items, each item inside its own try/except.  The items of a      *)
(* response batch are ResponseCreate objects (the request body is parsed     *)
(* before the handler runs); the items of a task batch are plain dicts, and  *)
(* the TaskCreate constructor is called on each inside the loop.             *)

\* class TaskCategory
TaskCategories == {"text", "image", "vqa", "audio", "code"}

\* class TaskType
TaskTypes == {"multiple-choice", "true-false", "short-answer", "rating", "vqa"}

\* TaskCreate(**task_data) raises ValidationError on a category or a type
\* outside the enum, or a complexity outside 1..5.
TaskCreateRaises(task_data) ==
    \/ task_data.category \notin TaskCategories
    \/ task_data.type \notin TaskTypes
    \/ task_data.complexity \notin 1..5

\* The dicts of a task batch: two well-formed ones and one that TaskCreate
\* rejects.
BatchTaskItems ==
    { [task_id |-> 1] @@ TaskInput(1),
      [task_id |-> 2] @@ TaskInput(2),
      [task_id |-> 1] @@ [TaskInput(1) EXCEPT !.complexity = 9] }

BatchSessions == {"w1", "w2"}

\* The session that posts the response batches.
BatchCaller == "w1"

\* The ResponseCreate objects of a response batch.
BatchResponseItems == [task_id : TaskIds, session_id : BatchSessions]

\* The lists of at most MaxBatch items.
BatchOf(items) == UNION {[1..n -> items] : n \in 0..MaxBatch}

\* failed_tasks.append / failed_responses.append: the id and str(e), here the
\* exception that was raised.
FailedEntry(task_id, error) == [task_id |-> task_id, error |-> error]

\* create_tasks_batch: one pass of the loop, on the store, the queue and the
\* two lists.  queue_task runs as a background task of the same request.
create_item(acc, task_data, t_now) ==
    IF TaskCreateRaises(task_data)
    THEN [acc EXCEPT !.failed = Append(@, FailedEntry(task_data.task_id, "ValidationError"))]
    ELSE LET task_db == NewTask(task_data, t_now)
             created == store_json(acc.tasks, task_data.task_id, TaskInDB_dict(task_db))
         IN  [acc EXCEPT !.tasks = store_json(created, task_data.task_id, TaskInDB_dict(task_db)),
                         !.queue = add_to_sorted_set(@, task_data.task_id, base_priority(task_db)),
                         !.done = Append(@, task_data.task_id)]

\* create_tasks_batch: for task_data in tasks
RECURSIVE create_tasks_loop(_, _, _)
create_tasks_loop(acc, items, t_now) ==
    IF items = <<>> THEN acc
    ELSE create_tasks_loop(create_item(acc, Head(items), t_now), Tail(items), t_now)

\* submit_responses_batch: one pass of the loop.  ValueError on a session_id
\* that is not the batch's; the HTTPException of submit_response (404, 400)
\* is caught by the same except.
submit_item(acc, response, session_id, t_now) ==
    IF response.session_id # session_id
    THEN [acc EXCEPT !.failed = Append(@, FailedEntry(response.task_id, "ValueError"))]
    ELSE IF response.task_id \notin DOMAIN acc.tasks
    THEN [acc EXCEPT !.failed = Append(@, FailedEntry(response.task_id, "HTTPException 404"))]
    ELSE IF SubmitRejected(acc.tasks, response.task_id, response.session_id)
    THEN [acc EXCEPT !.failed = Append(@, FailedEntry(response.task_id, "HTTPException 400"))]
    ELSE [acc EXCEPT !.responses = store_response(@,
                                       ResponseInDB_dict([task_id |-> response.task_id,
                                                          session_id |-> response.session_id,
                                                          created_at |-> t_now])),
                     !.tasks = Put(@, response.task_id,
                                   StatusUpdated(acc.tasks[response.task_id], COMPLETED, t_now)),
                     !.done = Append(@, response.task_id)]

\* A loop that gives up at the first item that fails.
RECURSIVE submit_responses_until_error(_, _, _, _)
submit_responses_until_error(acc, items, session_id, t_now) ==
    IF items = <<>> \/ acc.failed # <<>> THEN acc
    ELSE submit_responses_until_error(submit_item(acc, Head(items), session_id, t_now),
                                      Tail(items), session_id, t_now)

\* submit_responses_batch: for response in batch.responses
RECURSIVE submit_responses_loop(_, _, _, _)
submit_responses_loop(acc, items, session_id, t_now) ==
    IF items = <<>> THEN acc
    ELSE submit_responses_loop(submit_item(acc, Head(items), session_id, t_now),
                               Tail(items), session_id, t_now)

\* What a batch call returns: "success", "failed" and the two lists, kept
\* with the items it was called with.
BatchRet(op, w, items, acc) ==
    [op |-> op, task_id |-> 0, session_id |-> w,
     found |-> [submitted |-> items,
                success |-> Len(acc.done), failed |-> Len(acc.failed),
                done |-> acc.done, failed_items |-> acc.failed],
     ok |-> TRUE, count |-> Len(acc.done)]

\* POST /tasks/batch
CreateTasksBatch(items) ==
    /\ LET acc == create_tasks_loop([tasks |-> tasks, queue |-> queue,
                                     done |-> <<>>, failed |-> <<>>], items, now)
       IN  /\ tasks' = acc.tasks
           /\ queue' = acc.queue
           /\ last' = BatchRet("create_tasks_batch", None, items, acc)
    /\ UNCHANGED <<responses, tasks_assigned, now, users, inflight>>

\* POST /responses/batch
SubmitResponsesBatch(session_id, items) ==
    /\ LET acc == submit_responses_loop([tasks |-> tasks, responses |-> responses,
                                         done |-> <<>>, failed |-> <<>>],
                                        items, session_id, now)
       IN  /\ tasks' = acc.tasks
           /\ responses' = acc.responses
           /\ last' = BatchRet("submit_responses_batch", session_id, items, acc)
    /\ UNCHANGED <<queue, tasks_assigned, now, users, inflight>>

NextBatch ==
    \/ \E items \in BatchOf(BatchTaskItems) : CreateTasksBatch(items)
    \/ \E items \in BatchOf(BatchResponseItems) :
           SubmitResponsesBatch(BatchCaller, items)
    \/ \E t \in TaskIds, w \in BatchSessions : AssignTask(t, w)

SpecBatch == Init /\ [][NextBatch]_vars

-----------------------------------------------------------------------------
(* The four periodic jobs of the beat schedule on a store that holds worker  *)
(* profiles and response records: process_expired_tasks,                     *)
(* analyze_task_distribution, calculate_user_quality_scores, clean_old_data. *)
(* Profiles, like responses, are records the Redis database already holds:   *)
(* store_user_profile is called on UserProfile.dict(), whose datetime fields  *)
(* make json.dumps raise.                                                     *)

JobSessions == {"w1", "w2"}

\* The profiles the store holds.
StoredUsers(S) == [w \in S |-> UserProfileRecord(w, 0)]

\* A stored response with the score and the level process_response gave it.
ScoredResponse(w, quality_score) ==
    [ResponseObject(0, 1, w, 5000, "str:A") EXCEPT
         !.quality_score = ScoreOf(quality_score),
         !.quality_level = quality_level_of(quality_score)]

\* The responses the store holds: not evaluated yet, or evaluated.
JobResponses ==
    UNION {[1..n -> {ResponseObject(0, 1, w, 5000, "str:A") : w \in JobSessions}
                     \cup {ScoredResponse(w, q) : w \in JobSessions,
                                                  q \in {DefaultScore - FastPenalty, DefaultScore}}]
           : n \in 0..MaxStored}

InitJobs ==
    /\ tasks = StoredTasks(TaskIds)
    /\ queue = StoredQueue(TaskIds)
    /\ \E rs \in JobResponses : responses = WithIds(rs)
    /\ \E S \in SUBSET JobSessions : users = StoredUsers(S)
    /\ tasks_assigned = 0
    /\ now = 0
    /\ last = Ret("init", 0, None, <<>>, FALSE, 0)
    /\ assign_calls = EmptyMap
    /\ submit_calls = EmptyMap
    /\ sweep = NoSweep

\* sum(quality_scores)
RECURSIVE sum(_)
sum(quality_scores) ==
    IF quality_scores = <<>> THEN 0
    ELSE Head(quality_scores)[1] + sum(Tail(quality_scores))

\* calculate_user_quality_scores: the quality scores of the responses of one
\* session ("if quality_score is not None").
quality_scores_of(rs, session_id) ==
    LET scored(r) == r.session_id = session_id /\ r.quality_score # NoScore
        found == SelectSeq(rs, scored)
    IN  [i \in 1..Len(found) |-> found[i].quality_score]

\* A rollup that also drops the profile's last_active.
RolledUpWithoutActivity(user_data, avg_quality) ==
    [user_data EXCEPT !.quality_score = avg_quality, !.last_active = NoTime]

\* user_data["task_history"]["quality_score"] = avg_quality
RolledUp(user_data, avg_quality) == [user_data EXCEPT !.quality_score = avg_quality]

\* The Celery job calculate_user_quality_scores, run to its end.
CalculateUserQualityScores ==
    LET updated == {w \in DOMAIN users : quality_scores_of(responses, w) # <<>>}
    IN  /\ users' = [w \in DOMAIN users |->
                        IF w \in updated
                        THEN RolledUp(users[w],
                                      Quotient(sum(quality_scores_of(responses, w)),
                                               Len(quality_scores_of(responses, w))))
                        ELSE users[w]]
        /\ last' = Ret("calculate_user_quality_scores", 0, None, <<>>, TRUE,
                       Cardinality(updated))
        /\ UNCHANGED <<tasks, queue, responses, tasks_assigned, now, inflight>>

NextJobs ==
    \/ \E w \in JobSessions : AssignTask(1, w)
    \/ ProcessExpiredTasks
    \/ AnalyzeTaskDistribution
    \/ CalculateUserQualityScores
    \/ CleanOldData
    \/ \E d \in DaySteps : PassDays(d)

SpecJobs == InitJobs /\ [][NextJobs]_vars

-----------------------------------------------------------------------------
(* The rebalancer analyze_task_distribution on stores of different ages and  *)
(* response counts.                                                          *)

\* The values of stats:task:<id>:responses the database holds.
ResponseCounts == {0, 4, 5, 6}

\* The instants at which the store is looked at: the records were created at
\* 0, minutes, a day or six days ago.
RebalanceInstants == {0, TickMinutes, DayMinutes, DayMinutes + TickMinutes, 6 * DayMinutes}

\* A stored task record with the response count kept for it.
CountedTask(t, n) == [responses_stat |-> n] @@ NewTask(TaskInput(t), 0)

InitRebalance ==
    /\ \E S \in SUBSET TaskIds : \E counts \in [S -> ResponseCounts] :
          tasks = [t \in S |-> CountedTask(t, counts[t])]
    /\ queue = StoredQueue(TaskIds)
    /\ responses = <<>>
    /\ users = EmptyMap
    /\ tasks_assigned = 0
    /\ now \in RebalanceInstants
    /\ last = Ret("init", 0, None, <<>>, FALSE, 0)
    /\ assign_calls = EmptyMap
    /\ submit_calls = EmptyMap
    /\ sweep = NoSweep

NextRebalance ==
    \/ AnalyzeTaskDistribution
    \/ Tick

SpecRebalance == InitRebalance /\ [][NextRebalance]_vars

-----------------------------------------------------------------------------
(* RedisService.get_next_tasks(count), applied to queues and stores drawn    *)
(* from bounded sets: queue entries with and without a task record, equal    *)
(* and different scores, counts below, at and above the queue's size.         *)

PeekIds == 1..MaxPeekId

\* The scores of the drawn queues: the creation priority of complexity 3 and
\* the score the sweep re-queues at.
PeekScores == {base_priority(NewTask(TaskInput(2), 0)), RequeuePriority * ScoreScale}

InitPeek ==
    /\ \E S \in SUBSET PeekIds : tasks = StoredTasks(S)
    /\ \E Q \in SUBSET PeekIds : queue \in [Q -> PeekScores]
    /\ responses = <<>>
    /\ users = EmptyMap
    /\ tasks_assigned = 0
    /\ now = 0
    /\ last = Ret("init", 0, None, <<>>, FALSE, 0)
    /\ assign_calls = EmptyMap
    /\ submit_calls = EmptyMap
    /\ sweep = NoSweep

\* What a get_next_tasks call leaves behind: its argument and the task ids of
\* the list it returns.
PeekRet(count, task_ids) == [op |-> "get_next_tasks", count |-> count, tasks |-> task_ids]

\* RedisService.get_next_tasks(count)
GetNextTasks(count) ==
    /\ last' = PeekRet(count, get_next_tasks(queue, tasks, count))
    /\ UNCHANGED <<tasks, queue, responses, tasks_assigned, now, users, inflight>>

NextPeek == \E count \in 0..MaxCount : GetNextTasks(count)

SpecPeek == InitPeek /\ [][NextPeek]_vars

-----------------------------------------------------------------------------
(* Properties *)

\* The last call was assign_task, alone or as the last step of request_task.
LastIsAssign == last.op \in {"assign_task", "request_task"} /\ last.task_id \in TaskIds

\* The last call was assign_task and it returned the task.
LeaseReturned == LastIsAssign /\ last.ok

\* C1: two assign_task calls for the same pending task that run concurrently
\* (each reads the record before the other has written it) do not both return
\* a lease: when one of them writes its lease and returns it, no call that ran
\* concurrently with it has already been given the task.
C1_ConcurrentAssignExactlyOne ==
    [][\A w \in Sessions :
          (w \in DOMAIN assign_calls /\ AssignWrite(w))
          => LET call == assign_calls[w]
             IN  ~ /\ call.task_data.status = PENDING
                   /\ \E v \in call.concurrent :
                         /\ v # w
                         /\ v \notin DOMAIN assign_calls
                         /\ call.task_id \in DOMAIN tasks
                         /\ tasks[call.task_id].status = ASSIGNED
                         /\ tasks[call.task_id].assigned_to = v]_vars

\* C2: after assign_task has returned a lease for t, t is not in the priority
\* queue, and get_next_tasks (the window of the matching functions) does not
\* return it.
C2_LeasedTaskLeavesQueue ==
    LeaseReturned =>
        /\ last.task_id \notin DOMAIN queue
        /\ \A i \in 1..Len(get_next_tasks(queue, tasks, WindowSize)) :
              get_next_tasks(queue, tasks, WindowSize)[i] # last.task_id

\* C3: every task id in the priority queue belongs to a task whose status is
\* pending.
C3_QueuedImpliesPending ==
    \A t \in DOMAIN queue : t \in DOMAIN tasks /\ tasks[t].status = PENDING

\* C4: a task whose status is completed or rejected keeps that status in every
\* later state.
C4_TerminalStatusIsFinal ==
    [][\A t \in DOMAIN tasks :
          tasks[t].status \in {COMPLETED, REJECTED}
          => (t \in DOMAIN tasks' /\ tasks'[t].status = tasks[t].status)]_vars

AllowedTransitions ==
    { <<PENDING, ASSIGNED>>, <<ASSIGNED, COMPLETED>>, <<ASSIGNED, EXPIRED>>,
      <<EXPIRED, PENDING>> }

\* C5: every change of a task's status is one of pending->assigned,
\* assigned->completed, assigned->expired, expired->pending.
C5_OnlyLinearTransitions ==
    [][\A t \in (DOMAIN tasks) \cap (DOMAIN tasks') :
          tasks'[t].status # tasks[t].status
          => <<tasks[t].status, tasks'[t].status>> \in AllowedTransitions]_vars

\* C6: the sweep's write for a task (status expired, re-enqueue) never lands on
\* a record that has reached completed since the sweep read it.
C6_StaleSweepKeepsCompleted ==
    [][\A t \in DOMAIN tasks :
          (tasks[t].status = COMPLETED /\ sweep.phase = "expire" /\ sweep.task_id = t)
          => ~ SweepWrite]_vars

\* C7: assign_task(t, B) on a task that is assigned to another session A is
\* denied and leaves the task record, the queue and the assignment counter as
\* they are.
C7_AssignToOtherDenied ==
    [][\A t \in DOMAIN tasks : \A B \in Sessions :
          (/\ tasks[t].status = ASSIGNED
           /\ tasks[t].assigned_to \in Sessions \ {B}
           /\ AssignTask(t, B))
          => (~ last'.ok /\ UNCHANGED <<tasks, queue, tasks_assigned>>)]_vars

\* C8 as stated: assign_task(t, A) on a task already assigned to A returns the
\* lease unchanged, assigned_at and expires_at as the first assign set them.
C8_ReassignKeepsLease ==
    [][\A t \in DOMAIN tasks : \A A \in Sessions :
          (/\ tasks[t].status = ASSIGNED
           /\ tasks[t].assigned_to = A
           /\ AssignTask(t, A))
          => (/\ last'.ok
              /\ tasks'[t].assigned_at = tasks[t].assigned_at
              /\ tasks'[t].expires_at = tasks[t].expires_at)]_vars

\* C8 amended: assign_task(t, A) on a task already assigned to A returns a
\* lease again and renews it: status and assigned_to stay, assigned_at becomes
\* the time of this call and expires_at that time plus 10 minutes; nothing
\* else of the record and nothing of the queue changes, and the assignment
\* counter goes up by one.
C8_ReassignRenewsLease ==
    [][\A t \in DOMAIN tasks : \A A \in Sessions :
          (/\ tasks[t].status = ASSIGNED
           /\ tasks[t].assigned_to = A
           /\ AssignTask(t, A))
          => (/\ last'.ok
              /\ tasks' = [tasks EXCEPT ![t].assigned_at = now,
                                        ![t].expires_at = now + LeaseMinutes]
              /\ queue' = queue
              /\ tasks_assigned' = tasks_assigned + 1)]_vars

\* A lease was returned to the session that already held the task, at a later
\* time than the lease it held.
C8_Witness ==
    /\ last.op = "assign_task" /\ last.ok
    /\ last.found = <<ASSIGNED, last.session_id>>
    /\ tasks[last.task_id].assigned_at = now
    /\ now > 0
    /\ tasks_assigned = 2

\* C9: when assign_task has just returned a lease for t to w, t has status
\* assigned, assigned_to = w, assigned_at = now and expires_at = now + 10 min.
C9_LeaseStamped ==
    LeaseReturned =>
        /\ last.task_id \in DOMAIN tasks
        /\ tasks[last.task_id].status = ASSIGNED
        /\ tasks[last.task_id].assigned_to = last.session_id
        /\ tasks[last.task_id].assigned_at = now
        /\ tasks[last.task_id].expires_at = now + LeaseMinutes

\* A lease returned by request_task at a time other than the task's creation.
C9_Witness ==
    /\ last.op = "request_task" /\ last.ok
    /\ now > tasks[last.task_id].created_at
    /\ last.found = <<PENDING, None>>

\* C10: every task has assigned_to and assigned_at both set or both null.
C10_AssigneeAndTimeTogether ==
    \A t \in DOMAIN tasks :
        (tasks[t].assigned_to = None) <=> (tasks[t].assigned_at = NoTime)

\* One task never leased (both null) beside one that was leased and has been
\* completed or expired since (both set).
C10_Witness ==
    \E t, u \in DOMAIN tasks :
        /\ tasks[t].assigned_to = None /\ tasks[t].assigned_at = NoTime
        /\ tasks[u].status \in {COMPLETED, EXPIRED}
        /\ tasks[u].assigned_to # None /\ tasks[u].assigned_at # NoTime

\* C11: a task has expires_at set only if its status is assigned.
C11_ExpiresAtOnlyWhenAssigned ==
    \A t \in DOMAIN tasks :
        tasks[t].expires_at # NoTime => tasks[t].status = ASSIGNED

\* C12: when process_expired_tasks has run over a task that was assigned with
\* expires_at earlier than now, the task's status is pending, its queue score
\* is 5.0, and no listing filtered on status assigned returns it.
C12_SweptTaskPendingAtFive ==
    [][ProcessExpiredTasks =>
          \A t \in DOMAIN tasks :
              (/\ tasks[t].status = ASSIGNED
               /\ tasks[t].expires_at # NoTime
               /\ tasks[t].expires_at < now)
              => /\ tasks'[t].status = PENDING
                 /\ t \in DOMAIN queue' /\ queue'[t] = RequeuePriority * ScoreScale
                 /\ \A keys \in KeyOrders(DOMAIN tasks') :
                       LET listed == list_tasks(tasks', keys, ASSIGNED, ListLimit, 0)
                       IN  \A i \in 1..Len(listed) : listed[i] # t]_vars

\* C13: when process_expired_tasks fails on one task, every other assigned
\* task whose lease has expired is expired and re-enqueued in the same run:
\* at the failure no such task is left among the keys the run has not yet
\* looked at.
C13_SweepFailureIsolated ==
    [][\A t \in TaskIds :
          SweepRaise(t)
          => \A u \in sweep.keys \ {t} :
                ~ /\ u \in DOMAIN tasks
                  /\ tasks[u].status = ASSIGNED
                  /\ tasks[u].expires_at # NoTime
                  /\ ~ IsZulu(tasks[u].expires_at)
                  /\ tasks[u].expires_at < sweep.started]_vars

\* C14: every task id in the priority queue has a stored task record.
C14_QueuedTaskHasRecord ==
    \A t \in DOMAIN queue : t \in DOMAIN tasks

\* C15: when create_task has returned for a task of complexity c, the task is
\* stored with status pending and is in the priority queue with score 10 - 2c.
C15_CreatedTaskStoredAndQueued ==
    [][\A t \in TaskIds :
          CreateTask(t, TaskInput(t))
          => /\ t \in DOMAIN tasks'
             /\ tasks'[t].status = PENDING
             /\ tasks'[t].complexity = TaskInput(t).complexity
             /\ t \in DOMAIN queue'
             /\ queue'[t] = (10 - 2 * TaskInput(t).complexity) * ScoreScale]_vars

\* The window both matching functions score: the records found among the
\* first WindowSize queue entries, in queue order.
MatchWindow == get_next_tasks(queue, tasks, WindowSize)

\* The last call was find_task_for_user / match_tasks_to_user.
LastIsFind == last.op = "find_task_for_user"

LastIsRank == last.op = "match_tasks_to_user"

\* C16: find_task_for_user and match_tasks_to_user give every task of the
\* window the same score, and find_task_for_user returns the task that
\* match_tasks_to_user with limit 1 lists first (none when it lists nothing).
C16_FindReturnsFirstRanked ==
    LastIsFind =>
        LET view == ProfileView(last.profile)
            ranked == match_tasks_to_user(queue, tasks, view, 1)
        IN  /\ \A i \in 1..Len(MatchWindow) :
                   FindScore(tasks[MatchWindow[i]], view)
                       = MatchScore(tasks[MatchWindow[i]], view)
            /\ last.task_id = (IF ranked = <<>> THEN 0 ELSE ranked[1].task_id)

\* The score as the specification states it (times 2, technical_level in
\* tenths): language 2, topic 3, fit, category 1, type 1, where fit is +2 if
\* the complexity differs from 5 * technical_level by at most 1 and minus the
\* difference otherwise.
ClaimedFit(diff) == IF diff <= 2 THEN 4 ELSE 0 - diff

ClaimedScore(task, user_profile) ==
      (IF task.language = user_profile.language
          \/ task.language \in user_profile.preferred_languages THEN 4 ELSE 0)
    + (IF task.topic \in TopDomains(user_profile.domains) THEN 6 ELSE 0)
    + ClaimedFit(Abs(2 * task.complexity - user_profile.technical_level))
    + (IF task.category \in user_profile.categories_completed THEN 2 ELSE 0)
    + (IF task.type \in user_profile.task_types_completed THEN 2 ELSE 0)

\* C17: the score either matching function gives a task of the window is the
\* stated sum: 2 for the language, 3 for a top-5 topic, the complexity fit
\* (+2 if diff <= 1, else -diff), 1 for the category and 1 for the type.
C17_ScoreIsStatedSum ==
    /\ LastIsRank =>
          \A i \in 1..Len(last.matches) :
              last.matches[i].match_score
                  = ClaimedScore(tasks[last.matches[i].task_id], last.profile)
    /\ LastIsFind =>
          \A i \in 1..Len(MatchWindow) :
              FindScore(tasks[MatchWindow[i]], ProfileView(last.profile))
                  = ClaimedScore(tasks[MatchWindow[i]], last.profile)

\* C18: match_tasks_to_user(profile, limit) with limit >= 0 returns at most
\* limit entries, in descending order of score, and entries of equal score
\* in the order of the window (the order of the queue).
C18_RankBoundedSortedStable ==
    LastIsRank =>
        LET m == last.matches
        IN  /\ Len(m) <= last.limit
            /\ \A i, j \in 1..Len(m) :
                  i < j =>
                     /\ m[i].match_score >= m[j].match_score
                     /\ m[i].match_score = m[j].match_score
                           => Before(queue, m[i].task_id, m[j].task_id)

\* A call with limit 2 on a window of more than two tasks that returned two
\* entries of equal score.
C18_Witness ==
    /\ LastIsRank
    /\ last.limit = 2
    /\ Len(MatchWindow) > 2
    /\ Len(last.matches) = 2
    /\ last.matches[1].match_score = last.matches[2].match_score

\* The queue entries ZRANGE 0 19 returns: the WindowSize entries lowest in
\* queue order.
WindowEntries ==
    {a \in DOMAIN queue :
        Cardinality({b \in DOMAIN queue : Before(queue, b, a)}) < WindowSize}

\* The score find_task_for_user gave task a in its last call.
LastFindScore(a) == FindScore(tasks[a], ProfileView(last.profile))

\* find_task_for_user returned the first task of highest score among C.
ReturnedBestOf(C) ==
    /\ last.task_id \in C
    /\ \A b \in C \ {last.task_id} :
          \/ LastFindScore(b) < LastFindScore(last.task_id)
          \/ /\ LastFindScore(b) = LastFindScore(last.task_id)
             /\ Before(queue, last.task_id, b)

C20_MatchingChangesNothing ==
    [][last'.op \in {"find_task_for_user", "match_tasks_to_user"}
          => UNCHANGED <<tasks, queue, responses, tasks_assigned>>]_vars

\* find_task_for_user returned a task, and the task is still pending and
\* unleased.
C20_Witness ==
    /\ LastIsFind
    /\ last.task_id # 0
    /\ tasks[last.task_id].status = PENDING
    /\ tasks[last.task_id].assigned_to = None
    /\ tasks_assigned = 0

\* C21: the score of a task that stays in the queue is never lowered, by
\* analyze_task_distribution or by any operation that runs between two of
\* its runs; its score at a later run is therefore never below its score at
\* an earlier one.
C21_QueuedScoreNeverLowered ==
    [][\A t \in (DOMAIN queue) \cap (DOMAIN queue') : queue'[t] >= queue[t]]_vars

\* Task t is a pending task in the queue.
PendingQueued(t) ==
    /\ t \in DOMAIN tasks
    /\ t \in DOMAIN queue
    /\ tasks[t].status = PENDING

\* Task t is among the tasks the matching functions look at: it has a record
\* and fewer than WindowSize queue entries come before it.
InWindow(t) ==
    /\ t \in DOMAIN tasks
    /\ t \in DOMAIN queue
    /\ Cardinality({b \in DOMAIN queue : Before(queue, b, t)}) < WindowSize

\* Task t has been leased, or has left the queue.
LeasedOrGone(t) ==
    \/ t \notin DOMAIN tasks
    \/ t \notin DOMAIN queue
    \/ tasks[t].status = ASSIGNED

\* C22: with the rebalancer and the sweep running and workers requesting
\* again and again, every pending task in the queue eventually is in the
\* candidate window and eventually is leased (unless it leaves the queue).
C22_NoStarvation ==
    \A t \in StarveIds :
        /\ PendingQueued(t) ~> (InWindow(t) \/ ~ PendingQueued(t))
        /\ PendingQueued(t) ~> LeasedOrGone(t)

\* The last call was process_response and it computed a score.
LastIsEvaluate == last.op = "process_response" /\ last.quality_score # NoScore

\* The score as the specification states it, in tenths: 0.5, minus 0.2 for a
\* response faster than 1000 ms, minus 0.3 when the task has a correct answer
\* and the payload differs from it, clamped to [0, 1].
ClaimedQuality(response, task) ==
    LET fast == IF response.response_time_ms < 1000 THEN 2 ELSE 0
        wrong == IF /\ correct_answer_of(task) # None
                    /\ response.response_data # correct_answer_of(task)
                 THEN 3 ELSE 0
    IN  Max(0, Min(10, 5 - fast - wrong))

\* C23: the score process_response computes is 0.5 - 0.2 [response_time_ms <
\* 1000] - 0.3 [the task has a correct answer and the payload differs from
\* it], clamped to [0, 1]: one of 0.5, 0.3, 0.2, 0.0.
C23_ScoreIsStatedValue ==
    LastIsEvaluate =>
        /\ last.quality_score
              = ScoreOf(ClaimedQuality(last.response, tasks[last.response.task_id]))
        /\ last.quality_score \in {ScoreOf(5), ScoreOf(3), ScoreOf(2), ScoreOf(0)}

\* The quality_level of a stored response agrees with its quality_score.
LevelAgrees(r) == r.quality_level = quality_level_of(r.quality_score[1])

\* C24: every stored response with a quality_score has the quality_level the
\* thresholds give that score: high from 0.8, medium from 0.5, low from 0.2,
\* spam below.
C24_LevelFollowsScore ==
    \A i \in 1..Len(responses) :
        responses[i].quality_score # NoScore => LevelAgrees(responses[i])

\* A step changed stored response i.
Rewritten(i) == i \in 1..Len(responses') /\ responses'[i] # responses[i]

OnlyFieldsChanged(i, fields) ==
    \A f \in (DOMAIN responses[i]) \ fields : responses'[i][f] = responses[i][f]

LeasedTo(t, w) ==
    /\ t \in DOMAIN tasks
    /\ tasks[t].status = ASSIGNED
    /\ tasks[t].assigned_to = w

\* The step stored a response of session w for task t.
ResponseStored(t, w) ==
    /\ Len(responses') = Len(responses) + 1
    /\ responses'[Len(responses')].task_id = t
    /\ responses'[Len(responses')].session_id = w

\* C26: submit_response(t, w) is accepted exactly when t exists, is assigned
\* and is assigned to w; it then stores the response and completes t.  In
\* every other case it is rejected, no response is stored and the task stays
\* as it is.
C26_SubmitAcceptedIffLeased ==
    [][last'.op = "submit_response" =>
          IF LeasedTo(last'.task_id, last'.session_id)
          THEN /\ last'.ok
               /\ ResponseStored(last'.task_id, last'.session_id)
               /\ tasks'[last'.task_id].status = COMPLETED
          ELSE /\ ~ last'.ok
               /\ UNCHANGED <<tasks, responses>>]_vars

LastIsBatch == last.op \in {"create_tasks_batch", "submit_responses_batch"}

\* The indices of the items of the batch that TaskCreate accepts.
WellFormed(items) == {i \in 1..Len(items) : ~ TaskCreateRaises(items[i])}

\* Item i of a response batch is the first of the batch for its task, carries
\* the batch's session and its task is leased to that session.
Acceptable(items, i, session_id) ==
    /\ items[i].session_id = session_id
    /\ LeasedTo(items[i].task_id, session_id)
    /\ \A j \in 1..(i - 1) :
           items[j].task_id = items[i].task_id => items[j].session_id # session_id

\* The number of entries of list s that are about task t.
CountOf(s, t) == Cardinality({j \in 1..Len(s) : s[j] = t})

\* The task ids of the failed entries, in order.
FailedIds(r) == [j \in 1..Len(r.failed_items) |-> r.failed_items[j].task_id]

\* C27: a batch of tasks and a batch of responses process every item: an item
\* that fails does not stop the later ones (every well-formed task of the
\* batch is queued, every response of the batch whose task is leased to the
\* batch's session completes its task), every item is in the list of
\* successes or in the list of failures, each failure with its error, and
\* success + failed is the number of items submitted.
C27_BatchProcessesEveryItem ==
    [][LastIsBatch' =>
          LET r == last'.found
              items == r.submitted
          IN  /\ r.success + r.failed = Len(items)
              /\ r.success = Len(r.done)
              /\ r.failed = Len(r.failed_items)
              /\ \A i \in 1..Len(items) :
                     CountOf(r.done, items[i].task_id) + CountOf(FailedIds(r), items[i].task_id)
                         = Cardinality({j \in 1..Len(items) : items[j].task_id = items[i].task_id})
              /\ \A j \in 1..Len(r.failed_items) : r.failed_items[j].error # None
              /\ last'.op = "create_tasks_batch" =>
                     /\ Len(r.done) = Cardinality(WellFormed(items))
                     /\ \A i \in WellFormed(items) :
                            /\ items[i].task_id \in DOMAIN queue'
                            /\ \E j \in 1..Len(r.done) : r.done[j] = items[i].task_id
              /\ last'.op = "submit_responses_batch" =>
                     LET accepted == {i \in 1..Len(items) :
                                          Acceptable(items, i, last'.session_id)}
                     IN  /\ Len(r.done) = Cardinality(accepted)
                         /\ \A i \in accepted :
                                /\ tasks'[items[i].task_id].status = COMPLETED
                                /\ \E j \in 1..Len(r.done) : r.done[j] = items[i].task_id
                         /\ \A t \in DOMAIN tasks :
                                (\A i \in accepted : items[i].task_id # t)
                                    => tasks'[t] = tasks[t]]_vars

\* A response batch of three items returned: the second item failed, the
\* first and the third were accepted.
C27_Witness ==
    /\ last.op = "submit_responses_batch"
    /\ Len(last.found.submitted) = 3
    /\ last.found.success = 2
    /\ last.found.failed = 1
    /\ last.found.failed_items[1].task_id = last.found.submitted[2].task_id
    /\ last.found.done = <<last.found.submitted[1].task_id, last.found.submitted[3].task_id>>

JobOps == {"process_expired_tasks", "analyze_task_distribution",
           "calculate_user_quality_scores", "clean_old_data"}

\* C28: no periodic job (sweep, rebalance, user-quality rollup, retention
\* cleanup) writes or deletes a worker profile or a response record.
C28_JobsLeaveProfilesAndResponses ==
    [][last'.op \in JobOps => UNCHANGED <<users, responses>>]_vars

\* Profile w is as it was, but for its quality_score.
OnlyQualityScoreChanged(w) == users'[w] = [users[w] EXCEPT !.quality_score = users'[w].quality_score]

\* The records of rs, as a set.
Records(rs) == {rs[i] : i \in 1..Len(rs)}

\* C28, amended: the sweep and the rebalance leave every profile and every
\* response as it is.  The rollup leaves the responses and writes nothing of a
\* profile but its quality_score.  The cleanup changes no record: it only
\* deletes, a response older than 90 days or a profile inactive for more than
\* 60 days.
C28_JobsWriteOnlyRollupAndRetention ==
    [][last'.op \in JobOps =>
          /\ last'.op \in {"process_expired_tasks", "analyze_task_distribution"}
                 => UNCHANGED <<users, responses>>
          /\ last'.op = "calculate_user_quality_scores"
                 => /\ UNCHANGED responses
                    /\ DOMAIN users' = DOMAIN users
                    /\ \A w \in DOMAIN users : OnlyQualityScoreChanged(w)
          /\ last'.op = "clean_old_data"
                 => /\ Records(responses') \subseteq Records(responses)
                    /\ \A r \in Records(responses) \ Records(responses') :
                           age_days(r.created_at, now) > ResponseMaxAgeDays
                    /\ DOMAIN users' \subseteq DOMAIN users
                    /\ \A w \in DOMAIN users' : users'[w] = users[w]
                    /\ \A w \in (DOMAIN users) \ (DOMAIN users') :
                           age_days(users[w].last_active, now) > UserMaxAgeDays]_vars

\* The rollup has just written the quality score of a profile.
C28_Witness ==
    /\ last.op = "calculate_user_quality_scores"
    /\ last.count > 0
    /\ \E w \in DOMAIN users : users[w].quality_score # Quotient(DefaultScore, 1)

\* The step is an assign_task call, alone or inside request_task, for a task
\* the store holds with status expired.
AssignsExpired ==
    /\ last'.op \in {"assign_task", "request_task"}
    /\ last'.task_id \in DOMAIN tasks
    /\ tasks[last'.task_id].status = EXPIRED

\* C29: the sweep never leases.  A task whose lease the sweep finds run out is
\* not assigned after the sweep, the sweep hands no task to anyone, and an
\* assign_task call for an expired task succeeds for any session, the former
\* holder or another.
C29_SweepNeverLeases ==
    [][/\ last'.op = "process_expired_tasks" =>
              /\ \A t \in DOMAIN tasks :
                     LeaseExpired(tasks[t], now) => tasks'[t].status # ASSIGNED
              /\ \A t \in DOMAIN tasks' :
                     tasks'[t].status = ASSIGNED => t \in DOMAIN tasks /\ tasks'[t] = tasks[t]
              /\ UNCHANGED tasks_assigned
       /\ AssignsExpired =>
              /\ last'.ok
              /\ tasks'[last'.task_id].status = ASSIGNED
              /\ tasks'[last'.task_id].assigned_to = last'.session_id]_vars

\* assign_task has just leased to w2 a task that the sweep had expired in the
\* hands of w1.
C29_Witness ==
    /\ last.op = "assign_task"
    /\ last.ok
    /\ last.session_id = "w2"
    /\ last.found = <<EXPIRED, "w1">>
    /\ tasks[last.task_id].assigned_to = "w2"

\* A pending task is among the WindowSize lowest-scored queue entries.
PendingInWindow == \E t \in DOMAIN queue : PendingQueued(t) /\ InWindow(t)

\* The step is a request_task call that went as far as picking a task (a
\* request that fails on its profile picks none).
RequestPicked == last'.op = "request_task" /\ last'.task_id # 0

\* C30: request_task returns no task only when the window holds no pending
\* task: a request made while a pending task is among the 20 lowest-scored
\* queue entries, with no other call running, ends with a task leased to the
\* requester.
C30_RequestLeasesWhenPendingInWindow ==
    [][RequestPicked /\ PendingInWindow =>
          /\ last'.ok
          /\ tasks'[last'.task_id].status = ASSIGNED
          /\ tasks'[last'.task_id].assigned_to = last'.session_id]_vars

\* The step is a submit_response that was accepted.
Accepts == last'.op = "submit_response" /\ last'.ok

\* C31: a task is completed at most once: no submit_response is accepted for
\* a task whose record carries a completion time, that is, a task for which a
\* response was accepted before, whatever request_task, assign_task,
\* submit_response and sweep steps ran in between.
C31_CompletedAtMostOnce ==
    [][Accepts => "completed_at" \notin DOMAIN tasks[last'.task_id]]_vars

\* The step is a call about a task whose lease has run out and that no sweep
\* has processed yet.
OnExpiredLease ==
    /\ last'.task_id \in DOMAIN tasks
    /\ LeaseExpired(tasks[last'.task_id], now)

\* C32: a lease whose expires_at has passed stays in force until the sweep
\* processes the task: until then assign_task by a session other than the
\* holder is denied and leaves the record as it is, and the holder's
\* submit_response is accepted and completes the task.
C32_ExpiredLeaseStaysInForce ==
    [][OnExpiredLease =>
          /\ (/\ last'.op \in {"assign_task", "request_task"}
              /\ last'.session_id # tasks[last'.task_id].assigned_to)
                 => /\ ~ last'.ok
                    /\ tasks'[last'.task_id] = tasks[last'.task_id]
          /\ (/\ last'.op = "submit_response"
              /\ last'.session_id = tasks[last'.task_id].assigned_to)
                 => /\ last'.ok
                    /\ tasks'[last'.task_id].status = COMPLETED]_vars

\* The whole queue in the order get_next_tasks serves it.
ServingOrder == get_next_tasks(queue, tasks, Cardinality(DOMAIN queue))

\* Task a is served before task b.
ServedBefore(a, b) ==
    \E i, j \in 1..Len(ServingOrder) :
        ServingOrder[i] = a /\ ServingOrder[j] = b /\ i < j

\* Task u was never leased and its queue score is the one it was created with.
AtCreationPriority(u) ==
    /\ u \in DOMAIN tasks
    /\ u \in DOMAIN queue
    /\ tasks[u].status = PENDING
    /\ tasks[u].assigned_at = NoTime
    /\ queue[u] = base_priority(tasks[u])

\* Task t is as the sweep left it: expired and queued at 5.0.
Requeued(t) ==
    /\ t \in DOMAIN tasks
    /\ t \in DOMAIN queue
    /\ tasks[t].status = EXPIRED
    /\ queue[t] = RequeuePriority * ScoreScale

\* C33: a task re-enqueued by the sweep at score 5.0 is served before every
\* never-leased task that is still at its creation priority.
C33_RequeuedServedBeforeDefault ==
    \A t, u \in DOMAIN queue :
        Requeued(t) /\ AtCreationPriority(u) => ServedBefore(t, u)

\* C34: of two queued tasks still at their creation priority, the one of
\* lower complexity is served first.
C34_LowerComplexityServedFirst ==
    \A a, b \in DOMAIN queue :
        (/\ AtCreationPriority(a)
         /\ AtCreationPriority(b)
         /\ tasks[a].complexity < tasks[b].complexity) => ServedBefore(a, b)

\* newPriority as the claim states it, in score units of 1/ScoreScale: the age
\* in minutes is the age in days times ScoreScale.
StatedNewPriority(t) ==
    LET age == now - tasks[t].created_at
        ageBoost == IF age < 5 * ScoreScale THEN age ELSE 5 * ScoreScale
        count == IF "responses_stat" \in DOMAIN tasks[t] THEN tasks[t].responses_stat ELSE 0
        responseBoost == IF count < 5 THEN (5 - count) * ScoreScale ELSE 0
    IN  queue[t] + ageBoost + responseBoost

\* The difference between the stated new priority and the current one is
\* more than 1.0.
StatedApplied(t) ==
    \/ StatedNewPriority(t) - queue[t] > ScoreScale
    \/ queue[t] - StatedNewPriority(t) > ScoreScale

\* C35: a rebalance tick computes for each queued task newPriority = current
\* + min(ageHours/24, 5) + max(5 - responseCount, 0), writes it only if it
\* differs from the current score by more than 1.0 (a difference of exactly
\* 1.0 is not applied) and reports the number of tasks analysed and the number
\* of scores changed.
C35_RebalanceAppliesStatedPriority ==
    [][last'.op = "analyze_task_distribution" =>
          /\ DOMAIN queue' = DOMAIN queue
          /\ \A t \in DOMAIN queue :
                 queue'[t] = IF t \in DOMAIN tasks /\ StatedApplied(t)
                             THEN StatedNewPriority(t)
                             ELSE queue[t]
          /\ last'.found = <<Cardinality((DOMAIN queue) \cap (DOMAIN tasks))>>
          /\ last'.count = Cardinality({t \in DOMAIN queue : queue'[t] # queue[t]})]_vars

\* A rebalance tick analysed two tasks of age 0 and changed one score: the
\* other task has 4 responses, its new priority differs by exactly 1.0 and
\* its score is the one it had.
C35_Witness ==
    /\ last.op = "analyze_task_distribution"
    /\ last.found = <<2>>
    /\ last.count = 1
    /\ now = 0
    /\ \E t \in DOMAIN tasks :
           /\ tasks[t].responses_stat = 4
           /\ queue[t] = base_priority(tasks[t])

LastIsPeek == last.op = "get_next_tasks"

\* The n lowest-scored queue entries (all of them when the queue has fewer).
Lowest(n) ==
    {a \in DOMAIN queue : Cardinality({b \in DOMAIN queue : Before(queue, b, a)}) < n}

\* The list is in ascending order of queue score, and no id is listed twice.
AscendingByScore(task_ids) ==
    \A i, j \in 1..Len(task_ids) :
        i < j => /\ queue[task_ids[i]] <= queue[task_ids[j]]
                 /\ task_ids[i] # task_ids[j]

\* The ids of list s, as a set.
IdsOf(s) == {s[i] : i \in 1..Len(s)}

\* C36: get_next_tasks(n) returns at most n tasks, in ascending order of queue
\* score, and they are exactly the min(n, queue size) lowest-scored queue
\* entries.
C36_PeekReturnsLowestEntries ==
    LastIsPeek =>
        /\ Len(last.tasks) <= last.count
        /\ AscendingByScore(last.tasks)
        /\ IdsOf(last.tasks) = Lowest(last.count)

\* C36, amended: get_next_tasks(n) with n >= 1 returns at most n tasks, in
\* ascending order of queue score: the tasks whose records exist among the
\* min(n, queue size) lowest-scored queue entries; an entry of these without a
\* record is left out and not replaced.  get_next_tasks(0) returns the tasks
\* of every queue entry that has a record, in the same order.
C36_PeekReturnsRecordsOfLowestEntries ==
    LastIsPeek =>
        /\ AscendingByScore(last.tasks)
        /\ last.count >= 1 =>
               /\ Len(last.tasks) <= last.count
               /\ IdsOf(last.tasks) = Lowest(last.count) \cap (DOMAIN tasks)
        /\ last.count = 0 =>
               IdsOf(last.tasks) = (DOMAIN queue) \cap (DOMAIN tasks)

\* get_next_tasks(2) on a queue of three entries returned one task: the
\* lowest-scored entry has no record, the second has one, the third has one
\* and is not returned.
C36_Witness ==
    /\ LastIsPeek
    /\ last.count = 2
    /\ Cardinality(DOMAIN queue) = 3
    /\ Len(last.tasks) = 1
    /\ \E a \in Lowest(1) : a \notin DOMAIN tasks
    /\ \E c \in (DOMAIN queue) \ Lowest(2) : c \in DOMAIN tasks
    /\ \E a, b \in DOMAIN queue : queue[a] # queue[b]

\* Task t is assigned with expires_at strictly earlier than now.
Overdue(t) ==
    /\ tasks[t].status = ASSIGNED
    /\ tasks[t].expires_at # NoTime
    /\ tasks[t].expires_at < now

\* The queue entry of id t is as it was: absent, or there with its score.
QueueEntryUnchanged(t) ==
    IF t \in DOMAIN queue
    THEN t \in DOMAIN queue' /\ queue'[t] = queue[t]
    ELSE t \notin DOMAIN queue'

\* C37: process_expired_tasks changes only the tasks that are assigned with
\* expires_at strictly earlier than now: every other task record and queue
\* entry is as before, and the count it returns is the number of tasks it
\* expired.
C37_SweepChangesOnlyOverdue ==
    [][last'.op = "process_expired_tasks" =>
          /\ DOMAIN tasks' = DOMAIN tasks
          /\ \A t \in DOMAIN tasks :
                 IF Overdue(t)
                 THEN tasks'[t].status = EXPIRED
                 ELSE tasks'[t] = tasks[t] /\ QueueEntryUnchanged(t)
          /\ \A t \in (DOMAIN queue) \ (DOMAIN tasks) : QueueEntryUnchanged(t)
          /\ DOMAIN queue' \subseteq (DOMAIN queue) \cup (DOMAIN tasks)
          /\ last'.count = Cardinality({t \in DOMAIN tasks : Overdue(t)})
          /\ UNCHANGED <<responses, users>>]_vars

\* The sweep has just expired one task and left alone a task that is assigned
\* with expires_at equal to now.
C37_Witness ==
    /\ last.op = "process_expired_tasks"
    /\ last.count = 1
    /\ \E t, u \in DOMAIN tasks :
           /\ tasks[t].status = EXPIRED
           /\ tasks[t].expires_at < now
           /\ tasks[u].status = ASSIGNED
           /\ tasks[u].expires_at = now

\* The step is a create_task call for an id that already has a record.
Recreates == last'.op = "create_task" /\ last'.task_id \in DOMAIN tasks

C39_ProfileStoredUnderSession ==
    [][last'.op = "request_task" /\ last'.ok =>
          /\ last'.session_id \in DOMAIN users'
          /\ tasks'[last'.task_id].assigned_to \in DOMAIN users']_vars

\* C40: every accepted response is evaluated: once process_response, the
\* background evaluation submit_response schedules for the response it
\* accepted, has run, the stored record of that response carries a
\* quality_score and a quality_level.
C40_EvaluatedResponseIsScored ==
    last.op = "process_response" =>
        \E i \in 1..Len(responses) :
            /\ responses[i].response_id = last.response.response_id
            /\ responses[i].quality_score # NoScore
            /\ responses[i].quality_level # None

=============================================================================
